---- MODULE Spec2Model ----
(***************************************************************************)
(* Blackjack round machine of blackjack-game/src/app/page.tsx.             *)
(*                                                                         *)
(* The component is a React function component: every handler (startGame,  *)
(* hit, stand, buyChips, ...) and every callback it schedules reads the    *)
(* state values of the render in which the handler was created.  A click   *)
(* runs the handler of the latest committed render; a setTimeout callback  *)
(* and the code after an await keep the values of the render that          *)
(* scheduled them.  The model therefore stores, with every pending timer   *)
(* and every pending async continuation, the render snapshot it closes     *)
(* over.  Every pending timer carries the milliseconds left until it is    *)
(* due; time advances to the next due timer, and timers due at the same    *)
(* instant run in any order.                                               *)
(*                                                                         *)
(* Left out: the message text, the text of the advice, the history panel   *)
(* toggle, the +25/+50/+100 bet buttons, sign-in and sign-out.             *)
(***************************************************************************)
EXTENDS Integers, Sequences, FiniteSets, TLC

VARIABLES
    chips,        \* useState(0)            page.tsx:74
    bet,          \* useState(10)           page.tsx:75
    playerHand,   \* useState([])           page.tsx:76
    dealerHand,   \* useState([])           page.tsx:77
    gameState,    \* useState('betting')    page.tsx:78
    history,      \* useState([])           page.tsx:81
    newCardId,    \* useState(null)         page.tsx:86
    dbChips,      \* profiles.chips of the user in the store
    dbGames,      \* rows inserted into game_history, oldest first
    timers,       \* pending setTimeout callbacks
    tasks,        \* async functions suspended at an await
    round,        \* number of successful startGame calls so far
    hits,         \* number of hit calls since the last successful startGame
    buys,         \* number of buyChips calls so far
    dealt,        \* <<card1, card2, dealerCard>> of the last successful startGame
    settled,      \* settled[r]: balance updates applied for round r
    last,         \* the handler or callback that ran in the last step
    aiAdvice,     \* useState('')          page.tsx:82
    loadingAI,    \* useState(false)       page.tsx:83
    asks,         \* number of advice requests sent so far
    fails,        \* number of store calls that returned an error so far
    budget,       \* hits, purchases, advice requests and store errors explored
    placed        \* placed[r]: bet and balance at the startGame of round r

vars == <<chips, bet, playerHand, dealerHand, gameState, history,
          newCardId, dbChips, dbGames, timers, tasks, round, hits, buys,
          dealt, settled, last, aiAdvice, loadingAI, asks, fails, budget,
          placed>>

(***************************************************************************)
(* Bounds of the exploration.                                              *)
(***************************************************************************)
MaxRounds == 1
MaxHits == 4
MaxBuys == 1
MaxAsks == 1
MaxFails == 2
\* Hits, purchases, advice requests and store errors explored in one session.
MaxEvents == 2
\* The same in the runs checked for liveness.
FairEvents == 1
\* The same in the runs of the deal and the player's turn alone.
DealEvents == 4
\* Longest hand given to calculateHandValue in HandSpec.
MaxHandLen == 4

\* Ranks and suits that getRandomCard draws from in the exploration.
DrawRanks == {"A", "K"}
DrawSuits == {"spade"}
\* Balances found in the store when the page loads.
InitChips == {5}
\* Numbers typed into the bet field.
BetInputs == {0, 3}
\* Ranks of the hands given to calculateHandValue in HandSpec.
HandRanks == {"A", "2", "3", "4", "5", "6", "7", "8", "9", "10", "J", "Q", "K"}

(***************************************************************************)
(* Program constants.                                                      *)
(***************************************************************************)
InitialBet == 10
BustLimit == 21
DealerStandsAt == 17
AceHigh == 11
FaceValue == 10
AceDemotion == 10
BuyAmount == 500
Deal1Delay == 300
DealDealerDelay == 900
Deal2Delay == 1500
CheckDelay == 2100
ClearDelay == 600
BustDelay == 800
DealerDrawDelay == 1000
DetermineDelay == 500

Null == "null"
CardId == "card"

Cards == [suit : DrawSuits, rank : DrawRanks]

Min(a, b) == IF a < b THEN a ELSE b
Max(a, b) == IF a > b THEN a ELSE b

(***************************************************************************)
(* Card values and hand value.                                             *)
(***************************************************************************)
parseInt(s) ==
    CASE s = "2" -> 2 [] s = "3" -> 3 [] s = "4" -> 4 [] s = "5" -> 5
      [] s = "6" -> 6 [] s = "7" -> 7 [] s = "8" -> 8 [] s = "9" -> 9
      [] s = "10" -> 10

getCardValue(card) ==
    IF card.rank = "A" THEN AceHigh
    ELSE IF card.rank \in {"J", "Q", "K"} THEN FaceValue
    ELSE parseInt(card.rank)

\* an ace counted as 1 or 11 at the moment it is met
RECURSIVE AceDecidedWhenMet(_, _, _)
AceDecidedWhenMet(hand, value, aces) ==
    IF hand = <<>> THEN [value |-> value, aces |-> aces]
    ELSE LET card == Head(hand) IN
         IF card.rank = "A"
         THEN AceDecidedWhenMet(Tail(hand),
                  IF value + AceHigh > BustLimit
                  THEN value + AceHigh - AceDemotion
                  ELSE value + AceHigh, aces)
         ELSE AceDecidedWhenMet(Tail(hand), value + getCardValue(card), aces)

RECURSIVE ForEachCard(_, _, _)
ForEachCard(hand, value, aces) ==
    IF hand = <<>> THEN [value |-> value, aces |-> aces]
    ELSE LET card == Head(hand) IN
         IF card.rank = "A"
         THEN ForEachCard(Tail(hand), value + AceHigh, aces + 1)
         ELSE ForEachCard(Tail(hand), value + getCardValue(card), aces)

\* the while loop run at most once
DemoteAcesOnce(value, aces) ==
    IF value > BustLimit /\ aces > 0 THEN value - AceDemotion ELSE value

RECURSIVE DemoteAces(_, _)
DemoteAces(value, aces) ==
    IF value > BustLimit /\ aces > 0
    THEN DemoteAces(value - AceDemotion, aces - 1)
    ELSE value

calculateHandValue(hand) ==
    LET acc == ForEachCard(hand, 0, 0) IN DemoteAces(acc.value, acc.aces)

\* Math.ceil in place of Math.floor
CeilOneAndHalf(b) == (3 * b + 1) \div 2

\* Math.floor(bet * 1.5) for an integer bet
FloorOneAndHalf(b) == (3 * b) \div 2

(***************************************************************************)
(* The values a handler created in the current render closes over.         *)
(***************************************************************************)
Render ==
    [chips |-> chips, bet |-> bet, playerHand |-> playerHand,
     dealerHand |-> dealerHand, history |-> history, round |-> round]

\* The render whose startGame opens round number round + 1.
StartRender == [Render EXCEPT !.round = round + 1]

GameRow(ph, dh, result, b) ==
    [player_hand |-> ph, dealer_hand |-> dh, result |-> result, bet |-> b]

Timer(kind, due, c, cards) ==
    [kind |-> kind, due |-> due, c |-> c, cards |-> cards]

ClearTimer == [kind |-> "clear", due |-> ClearDelay]

Settle(r) == [settled EXCEPT ![r] = @ + 1]

\* Hits, purchases, advice requests and store errors so far.
Events == hits + buys + asks + fails

\* an update that reaches the store without the new balance
updateChipsKeepsRow(ok, newChips) == dbChips

\* profiles.chips after updateChips(user.id, newChips); ok: no error returned
updateChips(ok, newChips) == IF ok THEN newChips ELSE dbChips

\* game_history after saveGame(...); ok: no error returned
saveGame(ok, newGame) == IF ok THEN Append(dbGames, newGame) ELSE dbGames

Errors(ok) == IF ok THEN 0 ELSE 1

\* n more store errors are within what is explored
MayFail(n) == fails + n <= MaxFails /\ Events + n <= budget

\* a store call that only resolves when the store returned no error
RejectsOnError(ok) == ok

\* The promise of updateChips and saveGame resolves whether or not the store
\* returned an error: the error is only logged.
Resolves(ok) == TRUE

\* The page once loadUserData has returned.
Loaded ==
    /\ chips \in InitChips
    /\ dbChips = chips
    /\ bet = InitialBet
    /\ playerHand = <<>>
    /\ dealerHand = <<>>
    /\ gameState = "betting"
    /\ history = <<>>
    /\ newCardId = Null
    /\ dbGames = <<>>
    /\ timers = {}
    /\ tasks = {}
    /\ round = 0
    /\ hits = 0
    /\ buys = 0
    /\ dealt = <<>>
    /\ settled = [r \in 1..MaxRounds |-> 0]
    /\ last = [op |-> "load"]
    /\ aiAdvice = ""
    /\ loadingAI = FALSE
    /\ asks = 0
    /\ fails = 0
    /\ placed = [r \in 1..MaxRounds |-> [bet |-> 0, chips |-> 0]]

Init == Loaded /\ budget = MaxEvents

\* The same page with fewer optional events explored.
FairInit == Loaded /\ budget = FairEvents

\* The same page with more of them explored.
DealInit == Loaded /\ budget = DealEvents


(***************************************************************************)
(* Bet controls, rendered while gameState === 'betting'.                   *)
(***************************************************************************)
\* the bet field rendered during the player's turn as well
BetFieldShownWhilePlaying == gameState \in {"betting", "playing"}

\* the bet field is rendered while gameState === 'betting'
BetFieldShown == gameState = "betting"

\* onChange of the bet field with a number typed: num is parseInt of the text
SetBet(num) ==
    /\ BetFieldShown
    /\ bet' = Min(chips, Max(0, num))
    /\ last' = [op |-> "setBet"]
    /\ UNCHANGED <<chips, playerHand, dealerHand, gameState, history,
                   newCardId, dbChips, dbGames, timers, tasks, round, hits,
                   buys, dealt, settled,
                   budget, placed, fails, asks, aiAdvice, loadingAI>>

\* onChange of the bet field with the field emptied
ClearBet ==
    /\ BetFieldShown
    /\ bet' = 0
    /\ last' = [op |-> "setBet"]
    /\ UNCHANGED <<chips, playerHand, dealerHand, gameState, history,
                   newCardId, dbChips, dbGames, timers, tasks, round, hits,
                   buys, dealt, settled,
                   budget, placed, fails, asks, aiAdvice, loadingAI>>

(***************************************************************************)
(* startGame                                                               *)
(***************************************************************************)
\* the check with a bet of 0 let through
InvalidBetZeroAllowed(b, c) == b < 0 \/ b > c

InvalidBet(b, c) == b <= 0 \/ b > c

StartGame ==
    /\ gameState = "betting"
    /\ round < MaxRounds
    /\ IF InvalidBet(bet, chips)
       THEN /\ last' = [op |-> "startGame", ok |-> FALSE]
            /\ UNCHANGED <<chips, bet, playerHand, dealerHand, gameState,
                           history, newCardId, dbChips, dbGames, timers,
                           tasks, round, hits, buys, dealt, settled,
                   budget, placed, fails, asks, aiAdvice, loadingAI>>
       ELSE /\ gameState' = "playing"
            /\ newCardId' = Null
            /\ round' = round + 1
            /\ hits' = 0
            /\ \E card1, card2, dealerCard \in Cards :
                 /\ timers' = timers \cup
                      { Timer("deal1", Deal1Delay, StartRender, <<card1>>),
                        Timer("dealDealer", DealDealerDelay, StartRender,
                              <<dealerCard>>),
                        Timer("deal2", Deal2Delay, StartRender, <<card1, card2>>),
                        Timer("check", CheckDelay, StartRender,
                              <<card1, card2, dealerCard>>) }
                 /\ dealt' = <<card1, card2, dealerCard>>
            /\ last' = [op |-> "startGame", ok |-> TRUE]
            /\ aiAdvice' = ""
            /\ placed' = [placed EXCEPT ![round + 1] =
                             [bet |-> bet, chips |-> chips]]
            /\ UNCHANGED <<chips, bet, playerHand, dealerHand, history,
                           dbChips, dbGames, tasks, buys, settled,
                           budget, fails, asks, loadingAI>>

(***************************************************************************)
(* hit and stand, rendered while gameState === 'playing' and enabled while *)
(* newCardId === null.                                                     *)
(***************************************************************************)
\* the buttons rendered in every state
ControlsEnabledInAnyState == newCardId = Null

ControlsEnabled == gameState = "playing" /\ newCardId = Null

\* the new card put in front of the hand
NewCardFirst(hand, newCard) == <<newCard>> \o hand

\* [...playerHand, newCard]
NewHand(hand, newCard) == Append(hand, newCard)

Hit ==
    /\ ControlsEnabled
    /\ hits < MaxHits
    /\ Events < budget
    /\ \E newCard \in Cards :
         LET newHand == NewHand(playerHand, newCard)
             value == calculateHandValue(newHand) IN
         /\ playerHand' = newHand
         /\ newCardId' = CardId
         /\ timers' = timers \cup {ClearTimer} \cup
                (IF value > BustLimit
                 THEN {Timer("endGame", BustDelay, Render, <<>>)}
                 ELSE {})
         /\ last' = [op |-> "hit", bust |-> value > BustLimit]
    /\ hits' = hits + 1
    /\ aiAdvice' = ""
    /\ UNCHANGED <<chips, bet, dealerHand, gameState, history,
                   dbChips, dbGames, tasks, round, buys, dealt, settled,
                   budget, placed, fails, asks, loadingAI>>

\* dealCard drawing on 17 as well
DealCardDrawsOn17(c, newDealerHand) ==
    IF calculateHandValue(newDealerHand) <= DealerStandsAt
    THEN [kind |-> "dealerDraw", due |-> DealerDrawDelay, c |-> c,
          cards |-> newDealerHand]
    ELSE [kind |-> "determineWinner", due |-> DetermineDelay, c |-> c,
          cards |-> newDealerHand]

\* dealCard without the else branch that calls determineWinner
DealCardNeverCompares(c, newDealerHand) ==
    IF calculateHandValue(newDealerHand) < DealerStandsAt
    THEN [kind |-> "dealerDraw", due |-> DealerDrawDelay, c |-> c,
          cards |-> newDealerHand]
    ELSE [kind |-> "clear", due |-> ClearDelay]

\* dealCard drawing on 17 when an ace is counted as 11
DealCardHitsSoft17(c, newDealerHand) ==
    LET dealerValue == calculateHandValue(newDealerHand)
        acc == ForEachCard(newDealerHand, 0, 0)
        high == acc.aces - ((acc.value - dealerValue) \div AceDemotion) IN
    IF dealerValue < DealerStandsAt \/ (dealerValue = DealerStandsAt /\ high > 0)
    THEN [kind |-> "dealerDraw", due |-> DealerDrawDelay, c |-> c,
          cards |-> newDealerHand]
    ELSE [kind |-> "determineWinner", due |-> DetermineDelay, c |-> c,
          cards |-> newDealerHand]

\* dealCard drawing below 11 only
DealCardStandsOnAce(c, newDealerHand) ==
    IF calculateHandValue(newDealerHand) < AceHigh
    THEN [kind |-> "dealerDraw", due |-> DealerDrawDelay, c |-> c,
          cards |-> newDealerHand]
    ELSE [kind |-> "determineWinner", due |-> DetermineDelay, c |-> c,
          cards |-> newDealerHand]

\* dealCard standing on 16 already
DealCardStandsOn16(c, newDealerHand) ==
    IF calculateHandValue(newDealerHand) < DealerStandsAt - 1
    THEN [kind |-> "dealerDraw", due |-> DealerDrawDelay, c |-> c,
          cards |-> newDealerHand]
    ELSE [kind |-> "determineWinner", due |-> DetermineDelay, c |-> c,
          cards |-> newDealerHand]

\* dealCard of dealerPlay: one more draw, or the comparison
DealCard(c, newDealerHand) ==
    IF calculateHandValue(newDealerHand) < DealerStandsAt
    THEN Timer("dealerDraw", DealerDrawDelay, c, newDealerHand)
    ELSE Timer("determineWinner", DetermineDelay, c, newDealerHand)

Stand ==
    /\ ControlsEnabled
    /\ gameState' = "dealer"
    /\ timers' = timers \cup {DealCard(Render, dealerHand)}
    /\ last' = [op |-> "stand"]
    /\ UNCHANGED <<chips, bet, playerHand, dealerHand, history, newCardId,
                   dbChips, dbGames, tasks, round, hits, buys, dealt, settled,
                   budget, placed, fails, asks, aiAdvice, loadingAI>>

(***************************************************************************)
(* resetGame ('Play Again', rendered while gameState === 'ended') and      *)
(* buyChips (header button, always rendered).                              *)
(***************************************************************************)
\* 'Play Again' rendered in every state
ShownInAnyState == TRUE

\* 'Play Again' is rendered while gameState === 'ended'
PlayAgainShown == gameState = "ended"

ResetGame ==
    /\ PlayAgainShown
    /\ playerHand' = <<>>
    /\ dealerHand' = <<>>
    /\ gameState' = "betting"
    /\ aiAdvice' = ""
    /\ last' = [op |-> "resetGame"]
    /\ UNCHANGED <<chips, bet, history, newCardId, dbChips, dbGames, timers,
                   tasks, round, hits, buys, dealt, settled,
                   budget, placed, fails, asks, loadingAI>>

BuyChips ==
    /\ buys < MaxBuys
    /\ Events < budget
    /\ \E ok \in BOOLEAN :
         LET newChips == chips + BuyAmount IN
         /\ ok \/ (MayFail(1) /\ Events + 2 <= budget)
         /\ chips' = newChips
         /\ dbChips' = updateChips(ok, newChips)
         /\ fails' = fails + Errors(ok)
         /\ last' = [op |-> "buyChips", stored |-> ok]
    /\ buys' = buys + 1
    /\ UNCHANGED <<bet, playerHand, dealerHand, gameState, history,
                   newCardId, dbGames, timers, tasks, round, hits, dealt,
                   settled, budget, placed, asks, aiAdvice, loadingAI>>

(***************************************************************************)
(* getAIHelp ('AI Advice', rendered while gameState === 'playing', enabled *)
(* while no request is pending and newCardId === null).                    *)
(***************************************************************************)
AdviceEnabled == gameState = "playing" /\ ~loadingAI /\ newCardId = Null

\* the request sent for an empty hand as well
AnyHand(hand) == TRUE

\* playerHand.length === 0 makes getAIHelp return at once
HasCards(hand) == Len(hand) # 0

GetAIHelp ==
    /\ AdviceEnabled
    /\ IF gameState # "playing" \/ ~HasCards(playerHand)
       THEN /\ last' = [op |-> "getAIHelp", sent |-> FALSE]
            /\ UNCHANGED <<loadingAI, tasks, asks>>
       ELSE /\ asks < MaxAsks
            /\ Events < budget
            /\ loadingAI' = TRUE
            /\ tasks' = tasks \cup {[pc |-> "getAIHelp", c |-> Render]}
            /\ asks' = asks + 1
            /\ last' = [op |-> "getAIHelp", sent |-> TRUE]
    /\ UNCHANGED <<chips, bet, playerHand, dealerHand, gameState, history,
                   newCardId, dbChips, dbGames, timers, round, hits, buys,
                   dealt, settled, aiAdvice, fails, budget, placed>>

\* What the request can come back with: a response with advice, a response
\* without advice (status 500 of the route, or an empty text), or a throw
\* of fetch or of response.json().
Outcomes == {"advice", "noAdvice", "throws"}

AdviceText(outcome) ==
    CASE outcome = "advice" -> "data.advice"
      [] outcome = "noAdvice" -> "Unable to get advice right now."
      [] outcome = "throws" -> "Error getting advice. Please try again."

\* setLoadingAI(false) placed inside the try block
LoadingStaysOnThrow(outcome) == outcome = "throws"

\* loadingAI after the try/catch of getAIHelp
LoadingAfter(outcome) == FALSE

\* getAIHelp after its awaits
ResumeGetAIHelp(k) ==
    /\ k \in tasks
    /\ k.pc = "getAIHelp"
    /\ \E outcome \in Outcomes :
         /\ aiAdvice' = AdviceText(outcome)
         /\ loadingAI' = LoadingAfter(outcome)
         /\ last' = [op |-> "advice", outcome |-> outcome]
    /\ tasks' = tasks \ {k}
    /\ UNCHANGED <<chips, bet, playerHand, dealerHand, gameState, history,
                   newCardId, dbChips, dbGames, timers, round, hits, buys,
                   dealt, settled, asks, fails, budget, placed>>

(***************************************************************************)
(* setTimeout callbacks.  A callback runs when its delay has elapsed.      *)
(***************************************************************************)
Due(t, kind) == t \in timers /\ t.kind = kind /\ t.due = 0

\* startGame, 300 ms: setPlayerHand([card1])
FireDeal1(t) ==
    /\ Due(t, "deal1")
    /\ playerHand' = t.cards
    /\ newCardId' = CardId
    /\ timers' = timers \ {t}
    /\ last' = [op |-> "deal1"]
    /\ UNCHANGED <<chips, bet, dealerHand, gameState, history, dbChips,
                   dbGames, tasks, round, hits, buys, dealt, settled,
                   budget, placed, fails, asks, aiAdvice, loadingAI>>

\* startGame, 900 ms: setDealerHand([dealerCard])
FireDealDealer(t) ==
    /\ Due(t, "dealDealer")
    /\ dealerHand' = t.cards
    /\ newCardId' = CardId
    /\ timers' = timers \ {t}
    /\ last' = [op |-> "dealDealer"]
    /\ UNCHANGED <<chips, bet, playerHand, gameState, history, dbChips,
                   dbGames, tasks, round, hits, buys, dealt, settled,
                   budget, placed, fails, asks, aiAdvice, loadingAI>>

\* startGame, 1500 ms: setPlayerHand([card1, card2])
FireDeal2(t) ==
    /\ Due(t, "deal2")
    /\ playerHand' = t.cards
    /\ newCardId' = CardId
    /\ timers' = timers \ {t}
    /\ last' = [op |-> "deal2"]
    /\ UNCHANGED <<chips, bet, dealerHand, gameState, history, dbChips,
                   dbGames, tasks, round, hits, buys, dealt, settled,
                   budget, placed, fails, asks, aiAdvice, loadingAI>>

\* What a settlement did: the balance and bet its handler read, the balance
\* it set, and the balance and player hand of the page when it ran.
Settlement(kind, c, result, newChips, playerValue, dealerValue, ok) ==
    [op |-> "settle", kind |-> kind, round |-> c.round, result |-> result,
     stored |-> ok, storeBefore |-> dbChips,
     bet |-> c.bet, chipsRead |-> c.chips, newChips |-> newChips,
     chipsBefore |-> chips, playerValue |-> playerValue,
     dealerValue |-> dealerValue,
     shownPlayerValue |-> calculateHandValue(playerHand)]

\* the check settling every deal that is not bust
SettlesAnyDeal(playerValue) == playerValue <= BustLimit

\* startGame, 2100 ms: the blackjack check
IsInitialBlackjack(playerValue) == playerValue = BustLimit

FireCheck(t) ==
    LET card1 == t.cards[1]
        card2 == t.cards[2]
        dealerCard == t.cards[3]
        playerValue == calculateHandValue(<<card1, card2>>) IN
    /\ Due(t, "check")
    /\ newCardId' = Null
    /\ timers' = timers \ {t}
    /\ IF IsInitialBlackjack(playerValue)
       THEN LET winAmount == FloorOneAndHalf(t.c.bet)
                newChips == t.c.chips + winAmount
                newGame == GameRow(<<card1, card2>>, <<dealerCard>>, "win",
                                   t.c.bet) IN
            /\ gameState' = "ended"
            /\ chips' = newChips
            /\ \E ok, saved \in BOOLEAN :
                 /\ MayFail(Errors(ok) + Errors(saved))
                 /\ dbChips' = updateChips(ok, newChips)
                 /\ dbGames' = saveGame(saved, newGame)
                 /\ fails' = fails + Errors(ok) + Errors(saved)
                 /\ last' = Settlement("blackjack", t.c, "win", newChips,
                                       playerValue,
                                       calculateHandValue(<<dealerCard>>), ok)
            /\ history' = <<newGame>> \o t.c.history
            /\ settled' = Settle(t.c.round)
       ELSE /\ last' = [op |-> "check", bet |-> t.c.bet,
                        chipsRead |-> t.c.chips, chipsBefore |-> chips]
            /\ UNCHANGED <<chips, gameState, dbChips, dbGames, history,
                           settled, fails>>
    /\ UNCHANGED <<bet, playerHand, dealerHand, tasks, round, hits, buys,
                   dealt, budget, placed, asks, aiAdvice, loadingAI>>

\* hit and dealerPlay, 600 ms: setNewCardId(null)
FireClear(t) ==
    /\ Due(t, "clear")
    /\ newCardId' = Null
    /\ timers' = timers \ {t}
    /\ last' = [op |-> "clear"]
    /\ UNCHANGED <<chips, bet, playerHand, dealerHand, gameState, history,
                   dbChips, dbGames, tasks, round, hits, buys, dealt,
                   settled,
                   budget, placed, fails, asks, aiAdvice, loadingAI>>

\* hit, 800 ms after a busting card: endGame('loss') up to its first await
FireEndGame(t) ==
    LET newChips == t.c.chips - t.c.bet IN
    /\ Due(t, "endGame")
    /\ chips' = newChips
    /\ \E ok \in BOOLEAN :
         /\ MayFail(Errors(ok))
         /\ dbChips' = updateChips(ok, newChips)
         /\ fails' = fails + Errors(ok)
         /\ tasks' = tasks \cup {[pc |-> "endGame", c |-> t.c, stored |-> ok]}
         /\ last' = Settlement("bust", t.c, "loss", newChips,
                               calculateHandValue(t.c.playerHand),
                               calculateHandValue(t.c.dealerHand), ok)
    /\ timers' = timers \ {t}
    /\ settled' = Settle(t.c.round)
    /\ UNCHANGED <<bet, playerHand, dealerHand, gameState, history,
                   newCardId, dbGames, round, hits, buys, dealt,
                   budget, placed, asks, aiAdvice, loadingAI>>

\* dealerPlay, 1000 ms: one dealer draw, then dealCard() again
FireDealerDraw(t) ==
    /\ Due(t, "dealerDraw")
    /\ \E newCard \in Cards :
         LET newDealerHand == Append(t.cards, newCard) IN
         /\ dealerHand' = newDealerHand
         /\ timers' = (timers \ {t}) \cup
                        {ClearTimer, DealCard(t.c, newDealerHand)}
    /\ newCardId' = CardId
    /\ last' = [op |-> "dealerDraw", before |-> calculateHandValue(t.cards)]
    /\ UNCHANGED <<chips, bet, playerHand, gameState, history, dbChips,
                   dbGames, tasks, round, hits, buys, dealt, settled,
                   budget, placed, fails, asks, aiAdvice, loadingAI>>

\* the comparison without the dealer-bust branch
CompareWithoutDealerBust(playerValue, dealerValue, c, b) ==
    IF playerValue > dealerValue
    THEN [result |-> "win", newChips |-> c + b]
    ELSE IF playerValue < dealerValue
    THEN [result |-> "loss", newChips |-> c - b]
    ELSE [result |-> "push", newChips |-> c]

\* determineWinner: the comparison of the two final values
Compare(playerValue, dealerValue, c, b) ==
    IF dealerValue > BustLimit
    THEN [result |-> "win", newChips |-> c + b]
    ELSE IF playerValue > dealerValue
    THEN [result |-> "win", newChips |-> c + b]
    ELSE IF playerValue < dealerValue
    THEN [result |-> "loss", newChips |-> c - b]
    ELSE [result |-> "push", newChips |-> c]

\* dealerPlay, 500 ms after the last draw: determineWinner(newDealerHand) up
\* to its first await
FireDetermineWinner(t) ==
    LET finalDealerHand == t.cards
        playerValue == calculateHandValue(t.c.playerHand)
        dealerValue == calculateHandValue(finalDealerHand)
        r == Compare(playerValue, dealerValue, t.c.chips, t.c.bet) IN
    /\ Due(t, "determineWinner")
    /\ chips' = r.newChips
    /\ \E ok \in BOOLEAN :
         /\ MayFail(Errors(ok))
         /\ dbChips' = updateChips(ok, r.newChips)
         /\ fails' = fails + Errors(ok)
         /\ tasks' = tasks \cup {[pc |-> "determineWinner", c |-> t.c,
                                  finalDealerHand |-> finalDealerHand,
                                  result |-> r.result, stored |-> ok]}
         /\ last' = Settlement("compare", t.c, r.result, r.newChips,
                               playerValue, dealerValue, ok)
    /\ timers' = timers \ {t}
    /\ settled' = Settle(t.c.round)
    /\ UNCHANGED <<bet, playerHand, dealerHand, gameState, history,
                   newCardId, dbGames, round, hits, buys, dealt,
                   budget, placed, asks, aiAdvice, loadingAI>>

\* Time passes until the next pending callback is due.
NextDue == CHOOSE d \in {t.due : t \in timers} : \A t \in timers : d <= t.due

Tick ==
    /\ timers # {}
    /\ NextDue > 0
    /\ timers' = {[t EXCEPT !.due = @ - NextDue] : t \in timers}
    /\ last' = [op |-> "tick"]
    /\ UNCHANGED <<chips, bet, playerHand, dealerHand, gameState, history,
                   newCardId, dbChips, dbGames, tasks, round, hits, buys,
                   dealt, settled,
                   budget, placed, fails, asks, aiAdvice, loadingAI>>

(***************************************************************************)
(* The code of endGame and determineWinner after their awaits.  The rows   *)
(* of game_history are never read again while the page is open, so the     *)
(* insert is placed in the step in which saveGame returns.  A store call   *)
(* that returns an error leaves the store as it was.                       *)
(***************************************************************************)
ResumeEndGame(k) ==
    LET newGame == GameRow(k.c.playerHand, k.c.dealerHand, "loss", k.c.bet) IN
    /\ k \in tasks
    /\ k.pc = "endGame"
    /\ Resolves(k.stored)
    /\ \E saved \in BOOLEAN :
         /\ MayFail(Errors(saved))
         /\ Resolves(saved)
         /\ dbGames' = saveGame(saved, newGame)
         /\ fails' = fails + Errors(saved)
         /\ last' = [op |-> "resolved", kind |-> "bust", round |-> k.c.round,
                     stored |-> k.stored, saved |-> saved, row |-> newGame]
    /\ gameState' = "ended"
    /\ history' = <<newGame>> \o k.c.history
    /\ tasks' = tasks \ {k}
    /\ UNCHANGED <<chips, bet, playerHand, dealerHand, newCardId, dbChips,
                   timers, round, hits, buys, dealt, settled,
                   budget, placed, asks, aiAdvice, loadingAI>>

ResumeDetermineWinner(k) ==
    LET newGame == GameRow(k.c.playerHand, k.finalDealerHand, k.result,
                           k.c.bet) IN
    /\ k \in tasks
    /\ k.pc = "determineWinner"
    /\ Resolves(k.stored)
    /\ \E saved \in BOOLEAN :
         /\ MayFail(Errors(saved))
         /\ Resolves(saved)
         /\ dbGames' = saveGame(saved, newGame)
         /\ fails' = fails + Errors(saved)
         /\ last' = [op |-> "resolved", kind |-> "compare", round |-> k.c.round,
                     stored |-> k.stored, saved |-> saved, row |-> newGame]
    /\ gameState' = "ended"
    /\ history' = <<newGame>> \o k.c.history
    /\ tasks' = tasks \ {k}
    /\ UNCHANGED <<chips, bet, playerHand, dealerHand, newCardId, dbChips,
                   timers, round, hits, buys, dealt, settled,
                   budget, placed, asks, aiAdvice, loadingAI>>

\* The callbacks and continuations the event loop runs by itself.
Scheduled ==
    \/ \E t \in timers : FireDeal1(t)
    \/ \E t \in timers : FireDealDealer(t)
    \/ \E t \in timers : FireDeal2(t)
    \/ \E t \in timers : FireCheck(t)
    \/ \E t \in timers : FireClear(t)
    \/ \E t \in timers : FireEndGame(t)
    \/ \E t \in timers : FireDealerDraw(t)
    \/ \E t \in timers : FireDetermineWinner(t)
    \/ \E k \in tasks : ResumeEndGame(k)
    \/ \E k \in tasks : ResumeDetermineWinner(k)
    \/ \E k \in tasks : ResumeGetAIHelp(k)
    \/ Tick

\* The clicks and keystrokes of the player.
Player ==
    \/ \E num \in BetInputs : SetBet(num)
    \/ ClearBet
    \/ StartGame
    \/ Hit
    \/ Stand
    \/ ResetGame
    \/ BuyChips
    \/ GetAIHelp

Next == Player \/ Scheduled

Spec == Init /\ [][Next]_vars

\* Every due callback runs and every store call returns.
FairSpec == FairInit /\ [][Next]_vars /\ WF_vars(Scheduled)

(***************************************************************************)
(* The deal and the player's turn alone: the player bets, deals and hits,  *)
(* never stands, buys or asks for advice.                                  *)
(***************************************************************************)
DealNext ==
    \/ \E num \in BetInputs : SetBet(num)
    \/ StartGame
    \/ Hit
    \/ \E t \in timers : FireDeal1(t)
    \/ \E t \in timers : FireDealDealer(t)
    \/ \E t \in timers : FireDeal2(t)
    \/ \E t \in timers : FireCheck(t)
    \/ \E t \in timers : FireClear(t)
    \/ \E t \in timers : FireEndGame(t)
    \/ \E k \in tasks : ResumeEndGame(k)
    \/ Tick

DealSpec == DealInit /\ [][DealNext]_vars

(***************************************************************************)
(* calculateHandValue on its own: hands of up to MaxHandLen cards of any   *)
(* rank are built card by card and valued.                                 *)
(***************************************************************************)
HandDraw(card) ==
    /\ Len(playerHand) < MaxHandLen
    /\ playerHand' = Append(playerHand, card)
    /\ last' = [op |-> "handValue", value |-> calculateHandValue(playerHand')]
    /\ UNCHANGED <<chips, bet, dealerHand, gameState, history, newCardId,
                   dbChips, dbGames, timers, tasks, round, hits, buys, dealt,
                   settled,
                   budget, placed, fails, asks, aiAdvice, loadingAI>>

HandNext == \E rank \in HandRanks : HandDraw([suit |-> "spade", rank |-> rank])

HandSpec == Init /\ [][HandNext]_vars

(***************************************************************************)
(* dealerPlay on its own: the dealer is dealt one card of any rank and     *)
(* draws cards of any rank for as long as dealCard draws; determineWinner  *)
(* then values the final hand.                                             *)
(***************************************************************************)
\* startGame: setDealerHand([dealerCard])
DealerDeal(dealerCard) ==
    /\ dealerHand = <<>>
    /\ dealerHand' = <<dealerCard>>
    /\ last' = [op |-> "dealerDeal"]
    /\ UNCHANGED <<chips, bet, playerHand, gameState, history, newCardId,
                   dbChips, dbGames, timers, tasks, round, hits, buys, dealt,
                   settled, budget, placed, fails, asks, aiAdvice, loadingAI>>

\* dealCard: dealerValue < 17, one card drawn
DealerDraw(newCard) ==
    /\ dealerHand # <<>>
    /\ DealCard(Render, dealerHand).kind = "dealerDraw"
    /\ dealerHand' = Append(dealerHand, newCard)
    /\ last' = [op |-> "dealerDraw", before |-> calculateHandValue(dealerHand)]
    /\ UNCHANGED <<chips, bet, playerHand, gameState, history, newCardId,
                   dbChips, dbGames, timers, tasks, round, hits, buys, dealt,
                   settled, budget, placed, fails, asks, aiAdvice, loadingAI>>

\* dealCard: determineWinner(newDealerHand) and its dealerValue
DealerStands ==
    /\ dealerHand # <<>>
    /\ last.op # "dealerStands"
    /\ DealCard(Render, dealerHand).kind = "determineWinner"
    /\ last' = [op |-> "dealerStands",
                dealerValue |-> calculateHandValue(dealerHand)]
    /\ UNCHANGED <<chips, bet, playerHand, dealerHand, gameState, history,
                   newCardId, dbChips, dbGames, timers, tasks, round, hits,
                   buys, dealt, settled, budget, placed, fails, asks, aiAdvice,
                   loadingAI>>

DealerNext ==
    \/ \E rank \in HandRanks : DealerDeal([suit |-> "spade", rank |-> rank])
    \/ \E rank \in HandRanks : DealerDraw([suit |-> "spade", rank |-> rank])
    \/ DealerStands

DealerSpec == Init /\ [][DealerNext]_vars

(***************************************************************************)
(* Properties.                                                             *)
(***************************************************************************)
PayoutDelta == last.newChips - last.chipsRead

\* C1: startGame with bet <= 0 or bet > chips is rejected: the state stays
\* 'betting', no card is drawn (no deal is scheduled) and hands, balance,
\* bet, history and the store are unchanged.
C1_InvalidBetRejected ==
    [][ (last'.op = "startGame" /\ (bet <= 0 \/ bet > chips)) =>
          /\ gameState = "betting" /\ gameState' = "betting"
          /\ UNCHANGED <<chips, bet, playerHand, dealerHand, history,
                         newCardId, dbChips, dbGames, timers, tasks, dealt,
                         round>> ]_vars

C1_Witness ==
    /\ last.op = "startGame" /\ ~last.ok
    /\ bet > chips /\ bet > 0
    /\ gameState = "betting"

\* C2: a round whose player hand is bust is settled exactly as a loss of
\* bet: never as a win or a push, never by the dealer comparison, and the
\* dealer turn is not reached with a bust player hand.
C2_BustIsLossOnly ==
    /\ (calculateHandValue(playerHand) > BustLimit => gameState # "dealer")
    /\ (last.op = "settle" /\ last.shownPlayerValue > BustLimit =>
          /\ last.kind = "bust"
          /\ last.result = "loss"
          /\ PayoutDelta = -last.bet)

\* C3: when the two cards dealt by startGame total 21, the round is resolved
\* by the blackjack check alone: no hit and no stand takes effect in that
\* round, the dealer turn is not entered and the dealer hand holds at most
\* the one dealt card.
DealtBlackjack ==
    /\ dealt # <<>>
    /\ calculateHandValue(<<dealt[1], dealt[2]>>) = BustLimit

C3_BlackjackSkipsTurns ==
    DealtBlackjack =>
      /\ hits = 0
      /\ gameState # "dealer"
      /\ dealerHand \in {<<>>, <<dealt[3]>>}
      /\ (last.op = "settle" => last.kind = "blackjack")

\* C4: an initial-blackjack resolution pays floor(bet * 1.5), the integer d
\* with 2d <= 3 bet < 2d + 2, and no other resolution pays more than bet.
C4_BlackjackPayout ==
    last.op = "settle" =>
      /\ last.kind = "blackjack" =>
           /\ last.bet > 0
           /\ last.result = "win"
           /\ 2 * PayoutDelta <= 3 * last.bet
           /\ 3 * last.bet < 2 * PayoutDelta + 2
      /\ last.kind # "blackjack" => PayoutDelta <= last.bet

C4_Witness ==
    /\ last.op = "settle" /\ last.kind = "blackjack"
    /\ last.bet = 3 /\ PayoutDelta = 4

\* C5: the comparison after stand decides in this order: dealer value > 21
\* is a win of bet; else player value > dealer value is a win of bet; else
\* player value < dealer value is a loss of bet; else a push of 0.
C5_ComparisonRule ==
    (last.op = "settle" /\ last.kind = "compare") =>
      LET pv == last.playerValue
          dv == last.dealerValue IN
      /\ dv > 21 => last.result = "win" /\ PayoutDelta = last.bet
      /\ (dv <= 21 /\ pv > dv) => last.result = "win" /\ PayoutDelta = last.bet
      /\ (dv <= 21 /\ pv < dv) => last.result = "loss" /\ PayoutDelta = -last.bet
      /\ (dv <= 21 /\ pv = dv) => last.result = "push" /\ PayoutDelta = 0

C5_Witness ==
    /\ last.op = "settle" /\ last.kind = "compare"
    /\ last.result = "push" /\ last.playerValue = 20

\* C6: a dealer loop draws exactly while its hand is below 17: a draw is
\* pending iff the hand is below 17, the comparison is given a hand of value
\* >= 17, and no card is appended to a dealer hand whose value is >= 17.
C6_DealerDrawsBelow17 ==
    /\ [](\A t \in timers :
            /\ t.kind = "dealerDraw" => calculateHandValue(t.cards) < 17
            /\ t.kind = "determineWinner" => calculateHandValue(t.cards) >= 17)
    /\ []((last.op = "settle" /\ last.kind = "compare") =>
            last.dealerValue >= 17)
    /\ [][ /\ last'.op = "dealerDraw" => last'.before < 17
           /\ (\E card \in Cards : dealerHand' = Append(dealerHand, card)) =>
                 calculateHandValue(dealerHand) < 17 ]_vars

C6_Witness ==
    /\ last.op = "settle" /\ last.kind = "compare"
    /\ last.dealerValue > 21
    /\ Len(dealerHand) >= 3

\* C7: after every stand the dealer loop stops and the round reaches
\* 'ended' with a settlement applied, provided due callbacks run and store
\* calls return.
DealerPending ==
    \/ \E t \in timers : t.kind \in {"dealerDraw", "determineWinner"}
    \/ \E k \in tasks : k.pc = "determineWinner"

C7_DealerHalts ==
    (gameState = "dealer" \/ DealerPending) ~>
        (~DealerPending /\ gameState = "ended" /\ settled[round] >= 1)

C7_Witness ==
    /\ last.op = "resolved" /\ last.kind = "compare"
    /\ gameState = "ended"
    /\ Len(dealerHand) >= 4

\* C8: at every resolution the new balance, in memory and in the store, is
\* the balance current at that moment plus the payout of the round.
C8_SettlementAddsToCurrentBalance ==
    last.op = "settle" =>
      /\ chips = last.chipsBefore + PayoutDelta
      /\ (last.stored => dbChips = last.chipsBefore + PayoutDelta)

\* C9: a round is settled at most once.
C9_SettledAtMostOnce == \A r \in 1..MaxRounds : settled[r] <= 1

\* C10: hit and stand take effect only in 'playing'.
C10_HitStandOnlyInPlayerTurn ==
    [][ last'.op \in {"hit", "stand"} => gameState = "playing" ]_vars

C10_Witness ==
    /\ gameState \in {"dealer", "ended"}
    /\ newCardId = Null
    /\ hits < MaxHits

\* C11: calculateHandValue returns the largest total <= 21 obtainable by
\* counting each ace as 1 or 11 (J, Q, K as 10, numerics at face value), and
\* the total with every ace as 1 when no such total exists.
RankPoints(rank) ==
    CASE rank = "A" -> 1
      [] rank \in {"10", "J", "Q", "K"} -> 10
      [] rank = "2" -> 2 [] rank = "3" -> 3 [] rank = "4" -> 4
      [] rank = "5" -> 5 [] rank = "6" -> 6 [] rank = "7" -> 7
      [] rank = "8" -> 8 [] rank = "9" -> 9

RECURSIVE HardTotal(_)
HardTotal(hand) ==
    IF hand = <<>> THEN 0 ELSE RankPoints(Head(hand).rank) + HardTotal(Tail(hand))

AceCount(hand) == Cardinality({i \in 1..Len(hand) : hand[i].rank = "A"})

BestTotal(hand) ==
    LET totals == {HardTotal(hand) + 10 * k : k \in 0..AceCount(hand)}
        within == {t \in totals : t <= 21} IN
    IF within = {} THEN HardTotal(hand)
    ELSE CHOOSE t \in within : \A u \in within : u <= t

C11_HandValueIsBestTotal ==
    last.op = "handValue" => last.value = BestTotal(playerHand)

C11_Witness ==
    /\ last.op = "handValue"
    /\ Len(playerHand) = 3
    /\ AceCount(playerHand) = 2
    /\ playerHand[3].rank = "9"
    /\ last.value = 21

\* C12: one history entry per resolved round: never more entries, in the
\* page or in the store, than rounds that were settled, and exactly that many
\* once nothing is pending (in the store: when no write returned an error).
ResolvedRounds == Cardinality({r \in 1..MaxRounds : settled[r] >= 1})

C12_OneEntryPerResolvedRound ==
    /\ Len(history) <= ResolvedRounds
    /\ Len(dbGames) <= ResolvedRounds
    /\ (timers = {} /\ tasks = {}) =>
          /\ Len(history) = ResolvedRounds
          /\ (fails = 0 => Len(dbGames) = ResolvedRounds)

\* C13: a store call that returns an error changes nothing but the store:
\* the settlement sets the same in-memory balance, nothing is rolled back,
\* the suspended handler resumes and the round reaches 'ended' with its
\* history entry, and 'Play Again' is available.
SettlementTasks == {k \in tasks : k.pc \in {"endGame", "determineWinner"}}

C13_StoreErrorsDoNotBlock ==
    /\ []((last.op = "settle") =>
            /\ chips = last.newChips
            /\ (~last.stored => dbChips = last.storeBefore))
    /\ [](\A k \in SettlementTasks :
            ENABLED (ResumeEndGame(k) \/ ResumeDetermineWinner(k)))
    /\ [](gameState = "ended" => ENABLED ResetGame)
    /\ [][ last'.op = "resolved" =>
             /\ gameState' = "ended"
             /\ Head(history') = last'.row
             /\ chips' = chips
             /\ (~last'.saved => dbGames' = dbGames) ]_vars

C13_Witness ==
    /\ last.op = "resolved"
    /\ ~last.stored /\ ~last.saved
    /\ gameState = "ended"
    /\ dbChips # chips
    /\ dbGames = <<>> /\ Len(history) = 1

\* C14: the balance is never negative, in the page and in the store.
C14_BalanceNeverNegative == chips >= 0 /\ dbChips >= 0

\* C15: while the page is in 'betting', nothing but the player's own clicks
\* (bet field, Deal Cards, Buy Chips) changes the state, a hand, the balance
\* or the history: no callback or settlement of an earlier round runs on.
BettingClicks == {"setBet", "startGame", "buyChips"}

C15_NoLeftoverFromEarlierRound ==
    [][ (gameState = "betting" /\ last'.op \notin BettingClicks) =>
          UNCHANGED <<gameState, playerHand, dealerHand, chips, history>> ]_vars

\* C16: an advice request is sent only in 'playing' with a non-empty player
\* hand, and neither the click nor the response changes the state, a hand,
\* the bet, the balance, the history, the store or any pending callback or
\* settlement; only aiAdvice and loadingAI change.
OtherTasks(ts) == {k \in ts : k.pc # "getAIHelp"}

C16_AdviceLeavesRoundAlone ==
    [][ /\ (last'.op = "getAIHelp" /\ last'.sent) =>
              (gameState = "playing" /\ playerHand # <<>>)
        /\ last'.op \in {"getAIHelp", "advice"} =>
              /\ UNCHANGED <<gameState, playerHand, dealerHand, bet, chips,
                             history, newCardId, dbChips, dbGames, timers,
                             settled>>
              /\ OtherTasks(tasks') = OtherTasks(tasks) ]_vars

C16_Witness ==
    /\ last.op = "advice" /\ last.outcome = "advice"
    /\ aiAdvice = "data.advice"
    /\ ~loadingAI
    /\ gameState = "ended"

\* C17: when the advice request fails, aiAdvice becomes one of the two fixed
\* fallback texts and loadingAI returns to false; whether hit and stand are
\* available depends on gameState and newCardId alone.
Fallbacks ==
    {"Unable to get advice right now.",
     "Error getting advice. Please try again."}

C17_AdviceFailureFallsBack ==
    /\ [][ (last'.op = "advice" /\ last'.outcome # "advice") =>
             /\ aiAdvice' \in Fallbacks
             /\ loadingAI' = FALSE ]_vars
    /\ [](ENABLED Stand <=> (gameState = "playing" /\ newCardId = Null))

C17_Witness ==
    /\ last.op = "advice" /\ last.outcome = "throws"
    /\ aiAdvice = "Error getting advice. Please try again."
    /\ ~loadingAI
    /\ gameState = "playing" /\ newCardId = Null

\* C18: gameState only moves betting -> playing -> dealer -> ended, with
\* playing -> ended for blackjack and bust, and ended -> betting on reset.
AllowedMoves ==
    { <<"betting", "playing">>, <<"playing", "dealer">>,
      <<"dealer", "ended">>, <<"playing", "ended">>, <<"ended", "betting">> }

C18_OnlyAllowedMoves ==
    [][ gameState' # gameState =>
          /\ <<gameState, gameState'>> \in AllowedMoves
          /\ (gameState = "betting" => last'.op = "startGame")
          /\ (gameState = "ended" => last'.op = "resetGame") ]_vars

\* C19: when the deal completes, at the blackjack check, the player hand has
\* exactly two cards and the dealer hand exactly one, and the bet and (no
\* chips having been bought meanwhile) the balance are those of the click on
\* Deal Cards.
AtCheck ==
    last.op = "check" \/ (last.op = "settle" /\ last.kind = "blackjack")

C19_DealIsTwoAndOne ==
    AtCheck =>
      /\ Len(playerHand) = 2
      /\ Len(dealerHand) = 1
      /\ bet = last.bet
      /\ (buys = 0 => last.chipsBefore = last.chipsRead)

\* C20: the history entry of a round records the hands shown when the round
\* is resolved, the busting card included, the dealer's final hand (the one
\* dealt card for an initial blackjack) and the bet of the round.
C20_EntryRecordsFinalHands ==
    /\ last.op = "resolved" =>
          /\ last.row.player_hand = playerHand
          /\ last.row.dealer_hand = dealerHand
          /\ last.row.bet = bet
    /\ (last.op = "settle" /\ last.kind = "blackjack") =>
          /\ Head(history).player_hand = playerHand
          /\ Head(history).dealer_hand = <<dealt[3]>>
          /\ Head(history).bet = bet

\* C21: the balance, in the page and in the store, changes only in a
\* settlement or a chip purchase: a successful startGame, a hit (its card
\* busting or not), a dealer draw and every other step leave it alone, and a
\* round in which nothing follows the deal (no hit, no stand, no blackjack
\* dealt) is never settled: the check settles only two cards worth 21 and
\* the endGame of a round only follows a hit of that round.
BalanceSteps == {"settle", "buyChips"}

Abandoned ==
    /\ round >= 1
    /\ gameState = "playing"
    /\ hits = 0
    /\ ~DealtBlackjack

C21_BalanceChangesOnlyAtResolution ==
    /\ [][ (chips' # chips \/ dbChips' # dbChips) =>
             last'.op \in BalanceSteps ]_vars
    /\ [][ (last'.op = "startGame" /\ last'.ok) =>
             (gameState' = "playing" /\ UNCHANGED <<chips, dbChips>>) ]_vars
    /\ [](Abandoned => settled[round] = 0)
    /\ [][ (Abandoned /\ last'.op = "settle") => last'.round # round ]_vars
    /\ [](last.op = "settle" =>
            /\ last.kind = "blackjack" => last.playerValue = BustLimit
            /\ (last.kind = "bust" /\ last.round = round) => hits >= 1)

C21_Witness ==
    /\ Abandoned
    /\ timers = {} /\ tasks = {}
    /\ buys = 0
    /\ chips \in InitChips
    /\ Len(playerHand) = 2 /\ Len(dealerHand) = 1

\* C22: a hit whose card does not bust the hand appends exactly one card to
\* the end of the player hand and leaves gameState 'playing'; the earlier
\* cards, the dealer hand, the bet, the balance, the history and the store
\* are unchanged and no settlement is scheduled.
EndGameTimers(ts) == {t \in ts : t.kind = "endGame"}

C22_HitAppendsOneCard ==
    [][ (last'.op = "hit" /\ ~last'.bust) =>
          /\ gameState = "playing" /\ gameState' = "playing"
          /\ Len(playerHand') = Len(playerHand) + 1
          /\ SubSeq(playerHand', 1, Len(playerHand)) = playerHand
          /\ playerHand'[Len(playerHand')] \in Cards
          /\ calculateHandValue(playerHand') <= BustLimit
          /\ UNCHANGED <<dealerHand, bet, chips, history, dbChips, dbGames,
                         tasks, settled>>
          /\ EndGameTimers(timers') = EndGameTimers(timers) ]_vars

C22_Witness ==
    /\ last.op = "hit" /\ ~last.bust
    /\ gameState = "playing"
    /\ Len(playerHand) = 3
    /\ playerHand[1] # playerHand[3]
    /\ Len(dealerHand) = 1

\* C23: a 21 reached by hitting is not a blackjack: a hit that brings a hand
\* of three or more cards to 21 leaves gameState 'playing' and schedules no
\* settlement, only a stand ends the player's turn on such a hand, and the
\* round is settled by the comparison, a win paying exactly bet.
HitTwentyOne(hand) == Len(hand) >= 3 /\ calculateHandValue(hand) = BustLimit

C23_HitTwentyOneIsNoBlackjack ==
    /\ [][ (last'.op = "hit" /\ HitTwentyOne(playerHand')) =>
             /\ gameState' = "playing"
             /\ EndGameTimers(timers') = EndGameTimers(timers)
             /\ UNCHANGED <<chips, dbChips, settled>> ]_vars
    /\ [][ (gameState = "playing" /\ HitTwentyOne(playerHand)
              /\ gameState' # gameState) => last'.op = "stand" ]_vars
    /\ []((last.op = "settle" /\ HitTwentyOne(playerHand)) =>
            /\ last.kind = "compare"
            /\ PayoutDelta <= last.bet
            /\ (last.result = "win" => PayoutDelta = last.bet))

\* C24: the dealer stands on soft 17: when the dealer hand is worth 17 with
\* an ace counted as 11 (A+6, A+2+4, ...), dealCard schedules no draw, no
\* card is added to the hand, and determineWinner is given the hand with a
\* dealerValue of 17.
SoftSeventeen(hand) ==
    /\ calculateHandValue(hand) = DealerStandsAt
    /\ HardTotal(hand) = DealerStandsAt - AceDemotion

C24_DealerStandsOnSoft17 ==
    /\ [](SoftSeventeen(dealerHand) =>
            /\ DealCard(Render, dealerHand).kind = "determineWinner"
            /\ DealCard(Render, dealerHand).cards = dealerHand
            /\ ~ENABLED (\E rank \in HandRanks :
                           DealerDraw([suit |-> "spade", rank |-> rank]))
            /\ (last.op # "dealerStands" => ENABLED DealerStands)
            /\ (last.op = "dealerStands" => last.dealerValue = DealerStandsAt))
    /\ [][ SoftSeventeen(dealerHand) => dealerHand' = dealerHand ]_vars

C24_Witness ==
    /\ last.op = "dealerStands"
    /\ Len(dealerHand) = 2
    /\ dealerHand[1].rank = "A" /\ dealerHand[2].rank = "6"
    /\ last.dealerValue = DealerStandsAt

\* C25: the dealer draws only while gameState is 'dealer': no card is added
\* to the dealer hand in any other state, once the deal is complete the
\* dealer hand is the one dealt card for as long as gameState is 'playing',
\* and neither a hit nor an advice request changes it.
DealTimers == {t \in timers : t.kind \in {"deal1", "dealDealer", "deal2", "check"}}

DealComplete == round >= 1 /\ DealTimers = {}

C25_DealerDrawsOnlyInDealerTurn ==
    /\ [][ last'.op = "dealerDraw" => gameState = "dealer" ]_vars
    /\ []((gameState = "playing" /\ DealComplete) => dealerHand = <<dealt[3]>>)
    /\ [][ last'.op \in {"hit", "getAIHelp", "advice"} =>
             UNCHANGED dealerHand ]_vars

\* C26: resetGame runs only from 'ended'; it empties both hands and sets
\* gameState 'betting', and leaves the balance, the bet, the history and the
\* store unchanged.
C26_ResetFromEndedOnly ==
    [][ last'.op = "resetGame" =>
          /\ gameState = "ended"
          /\ gameState' = "betting"
          /\ playerHand' = <<>> /\ dealerHand' = <<>>
          /\ UNCHANGED <<chips, bet, history, dbChips, dbGames>> ]_vars

C26_Witness ==
    /\ last.op = "resetGame"
    /\ gameState = "betting"
    /\ playerHand = <<>> /\ dealerHand = <<>>
    /\ Len(history) = 1
    /\ chips # dbChips

\* C27: calculateHandValue depends on the ranks of the hand only, not on
\* their order, suits or ids: it is 0 for the empty hand, and every
\* permutation of a hand, the hand with the suit of any card changed and the
\* hand with ids attached have the value of the hand.
Suits == {"spade", "heart", "diamond", "club"}

Permuted(hand, p) == [i \in 1..Len(hand) |-> hand[p[i]]]

WithSuit(hand, k, suit) ==
    [i \in 1..Len(hand) |->
        IF i = k THEN [suit |-> suit, rank |-> hand[i].rank] ELSE hand[i]]

WithIds(hand) ==
    [i \in 1..Len(hand) |->
        [suit |-> hand[i].suit, rank |-> hand[i].rank, id |-> i]]

C27_HandValueOfRanksOnly ==
    /\ calculateHandValue(<<>>) = 0
    /\ playerHand = <<>> => calculateHandValue(playerHand) = 0
    /\ last.op = "handValue" =>
         /\ \A p \in Permutations(1..Len(playerHand)) :
              calculateHandValue(Permuted(playerHand, p)) = last.value
         /\ \A k \in 1..Len(playerHand) : \A suit \in Suits :
              calculateHandValue(WithSuit(playerHand, k, suit)) = last.value
         /\ calculateHandValue(WithIds(playerHand)) = last.value

C27_Witness ==
    /\ last.op = "handValue"
    /\ Len(playerHand) = 3
    /\ playerHand[1].rank = "A"
    /\ playerHand[2].rank = "K"
    /\ playerHand[3].rank = "5"
    /\ last.value = 16

\* C28: the history is most-recent-first and only grows at the front: every
\* change of the list shown puts one new entry before the entries that were
\* there, none of which is dropped or moved, and every change of the rows in
\* the store adds one row after the rows that were there.
C28_HistoryGrowsAtFront ==
    /\ [][ history' # history =>
             /\ Len(history') = Len(history) + 1
             /\ Tail(history') = history ]_vars
    /\ [][ dbGames' # dbGames =>
             /\ Len(dbGames') = Len(dbGames) + 1
             /\ SubSeq(dbGames', 1, Len(dbGames)) = dbGames ]_vars

\* C29: no hit and no stand takes effect while the deal of startGame is
\* still running (a card to be placed or the blackjack check pending), and
\* every hit or stand that takes effect finds at least two player cards and
\* exactly one dealer card.
C29_NoMoveDuringDeal ==
    [][ last'.op \in {"hit", "stand"} =>
          /\ DealTimers = {}
          /\ Len(playerHand) >= 2
          /\ Len(dealerHand) = 1 ]_vars

\* C30: after a hit that busts the hand no hit and no stand takes effect
\* before the scheduled endGame has run, and every hit or stand that takes
\* effect finds a player hand worth at most 21.
C30_NoMoveAfterBust ==
    [][ last'.op \in {"hit", "stand"} =>
          /\ EndGameTimers(timers) = {}
          /\ calculateHandValue(playerHand) <= BustLimit ]_vars

\* C31: the bet of a round is fixed at the successful startGame: bet changes
\* only through the bet field in 'betting', startGame accepts it only when
\* 0 < bet <= chips, it is the bet shown for as long as the round is in
\* 'playing' or 'dealer', and every callback, settlement and history entry
\* of the round uses that bet, whatever the bet field holds by then.
Closures == {t.c : t \in {u \in timers : u.kind # "clear"}} \cup {k.c : k \in tasks}

C31_BetFixedForTheRound ==
    /\ [][ bet' # bet =>
             (gameState = "betting" /\ last'.op = "setBet") ]_vars
    /\ [][ (last'.op = "startGame" /\ last'.ok) =>
             /\ 0 < bet /\ bet <= chips
             /\ bet' = bet
             /\ placed'[round'] = [bet |-> bet, chips |-> chips] ]_vars
    /\ [](gameState \in {"playing", "dealer"} => bet = placed[round].bet)
    /\ [](\A c \in Closures : c.bet = placed[c.round].bet)
    /\ [](last.op = "settle" =>
            /\ last.bet = placed[last.round].bet
            /\ 0 < last.bet
            /\ last.bet <= placed[last.round].chips)
    /\ [](last.op = "resolved" => last.row.bet = placed[last.round].bet)

C31_Witness ==
    /\ last.op = "settle" /\ last.kind = "compare"
    /\ gameState = "betting"
    /\ bet # last.bet
    /\ last.bet = placed[last.round].bet

\* C32: a dealer loop that starts from the one dealt card draws at least 1
\* and at most 11 cards, whatever cards come: the loop always draws on the
\* dealt card alone, no dealer hand grows beyond 12 cards, and the hand
\* given to determineWinner has between 2 and 12 cards.
C32_DealerDrawsOneToEleven ==
    /\ Len(dealerHand) <= 12
    /\ Len(dealerHand) = 1 => DealCard(Render, dealerHand).kind = "dealerDraw"
    /\ Len(dealerHand) = 12 =>
         DealCard(Render, dealerHand).kind = "determineWinner"
    /\ last.op = "dealerStands" =>
         /\ Len(dealerHand) - 1 >= 1
         /\ Len(dealerHand) - 1 <= 11

C32_Witness ==
    /\ last.op = "dealerStands"
    /\ Len(dealerHand) = 12
    /\ last.dealerValue = DealerStandsAt

\* C33: the dealerValue that determineWinner compares is between 17 and 26.
C33_DealerValueRange ==
    last.op = "dealerStands" =>
      /\ last.dealerValue >= DealerStandsAt
      /\ last.dealerValue <= 26
      /\ last.dealerValue = calculateHandValue(dealerHand)

C33_Witness ==
    /\ last.op = "dealerStands"
    /\ last.dealerValue = 26
    /\ Len(dealerHand) = 3

\* C34: every handler that sets the balance sends the store the value it sets
\* (startGame's blackjack branch, determineWinner, endGame, buyChips): after a
\* step whose updateChips returned no error the stored balance is the balance
\* of the page, the two stay equal across every other step, and while no
\* store call has failed the stored balance equals the balance of the page.
C34_StoreFollowsBalance ==
    /\ [][ (last'.op \in BalanceSteps /\ last'.stored) =>
             dbChips' = chips' ]_vars
    /\ [][ (last'.op = "settle" /\ last'.stored) =>
             dbChips' = last'.newChips ]_vars
    /\ [][ (last'.op \in BalanceSteps /\ ~last'.stored) =>
             dbChips' = dbChips ]_vars
    /\ [][ (dbChips = chips /\ last'.op \notin BalanceSteps) =>
             dbChips' = chips' ]_vars
    /\ [](fails = 0 => dbChips = chips)

C34_Witness ==
    /\ last.op = "settle"
    /\ last.stored
    /\ buys = 1
    /\ fails = 0
    /\ chips # last.chipsBefore
    /\ last.storeBefore = last.chipsBefore
    /\ dbChips = chips

====
